---- MODULE Spec2Model ----
(***************************************************************************)
(* A model of src/src/signalfd_ctx.c, the signalfd emulation of            *)
(* epoll-shim: a monitor of a set of (blocked) signals over a kqueue.      *)
(*                                                                         *)
(* The process-level pending set is `pending'; the readiness of the        *)
(* monitor's registration on the kqueue (the EVFILT_SIGNAL observers plus  *)
(* the manual kqueue_event trigger) is the bit `ready'.  Every system call *)
(* of the source is one atomic step; signal deliveries (and, in SpecEnv,   *)
(* other consumers of pending signals) interleave between the steps.       *)
(***************************************************************************)
EXTENDS Naturals, FiniteSets, Sequences

(* ------------------------------ bounds -------------------------------- *)

\* Signal numbers are 1..NSig.
NSig == 2

\* Number of threads that call read and poll on the monitor.
NThreads == 2

Signals == 1..NSig

\* The longest history of claimed signals that is kept.
MaxClaimed == NSig + 1

Threads == 1..NThreads

(* ----------------------------- constants ------------------------------ *)

NoError == "0"

EAGAIN == "EAGAIN"

EINVAL == "EINVAL"

\* Any errno of a failing system call that the source does not single out.
EFAIL == "EFAIL"

POLLIN == "POLLIN"

NoEvents == "0"

(* ------------------------------- state -------------------------------- *)

VARIABLES
    variant,      \* which claim step the build has: "sigtimedwait" or "thrsigdivert" (#ifdef __OpenBSD__)
    osFaulty,     \* whether system calls of the monitor may fail in this environment
    closedWorld,  \* whether the monitor is the only consumer of pending signals in this environment
    tracing,      \* whether the histories of what a call saw (sawPending, sawEmpty, bitAtEntry) are kept
    sigs,         \* signalfd->sigs
    pending,      \* the process-level pending signal set (what sigpending reports)
    ready,        \* the registration's ready bit: the kqueue is readable
    registered,   \* the kevent registration (observers and trigger event) is live
    knotes,       \* the signals that have an EVFILT_SIGNAL entry of the monitor on the caller's kq
    mutexLive,    \* signalfd->mutex is initialised and not destroyed
    mutexOwner,   \* 0, or the thread holding signalfd->mutex
    phase,        \* position of the thread that runs init and terminate
    initEc,       \* what signalfd_ctx_init returned ("none" before it returns)
    termEc,       \* signalfd_ctx_terminate: its ec ("none" before its first step)
    termSteps,    \* signalfd_ctx_terminate: the ec_local of each step it has performed, in order
    pc,           \* position of each calling thread
    op,           \* the call a thread is in: "none", "read" or "poll"
    reventsPtr,   \* poll: revents != NULL
    ec,           \* read: the errno_t of signalfd_ctx_read_impl / the call
    ident,        \* read: *ident (0 when not written)
    pendingSigs,  \* read_impl (OpenBSD): the local pending_sigs
    csResult,     \* what signalfd_ctx_clear_signal returned: "none", "true", "false"
    revents,      \* poll: *revents ("unset" when not written)
    sawPending,   \* history: a monitored signal was pending at some moment of the call's body
    sawEmpty,     \* history: no monitored signal was pending at some moment of the call's body
    retried,      \* history: the claim loop of the call went round again
    failed,       \* history: the calls of clear_signal that failed in this call ("check", "recheck", "trigger")
    preRegPending,    \* history: a monitored signal was pending when the observers were registered
    postRegDelivered, \* history: a monitored signal was delivered after the registration
    callsStarted,     \* history: calls of read and poll since init (0, 1, or 2 for "more");
                      \* the two histories above are kept until a second call starts
    \* The histories from here on, and the two of init above, are kept in a closed world only.
    bitAtEntry,   \* history: the ready bit when the call got the mutex
    undisturbed,  \* history: the environment left the monitored pending signals alone during the call's body
    prevPoll,     \* history: what the poll before this one found ("none": a delivery or a read came between)
    quietPending, \* history: the monitored signals that were pending right after the last delivery of one
    claimedSeq,   \* history: the signals that reads have returned since that delivery, in order
    lastPoll      \* history: what the last poll found, "none" once a monitored signal is delivered or a read runs

vars == <<variant, osFaulty, closedWorld, tracing, sigs, pending, ready, registered, knotes, mutexLive, mutexOwner,
          phase, initEc, termEc, termSteps, pc, op, reventsPtr, ec, ident, pendingSigs,
          csResult, revents, sawPending, sawEmpty, retried, failed,
          preRegPending, postRegDelivered, callsStarted,
          bitAtEntry, undisturbed, prevPoll, quietPending, claimedSeq, lastPoll>>

monitorVars == <<variant, osFaulty, closedWorld, tracing, sigs>>

lifeVars == <<registered, knotes, mutexLive, phase, initEc, termEc, termSteps>>

localVars == <<op, reventsPtr, ec, ident, pendingSigs, csResult, revents>>

initHist == <<preRegPending, postRegDelivered>>

entryHist == <<bitAtEntry, undisturbed, prevPoll>>

quietHist == <<quietPending, claimedSeq, lastPoll>>

(* ------------------------- the signal-set helpers --------------------- *)

\* sigandset(&d, &l, &r)
Sigandset(l, r) == l \cap r

\* sigisemptyset(&s)
Sigisemptyset(s) == s = {}

\* sigismember(&set, i)
Sigismember(set, i) == i \in set

\* __builtin_ffsll: one plus the index of the lowest set bit, 0 for no bit;
\* bit i-1 of a sigset_t stands for signal i.
Ffsll(set) == IF set = {} THEN 0 ELSE CHOOSE i \in set : \A j \in set : i <= j

\* sigmask(signum)
Sigmask(signum) == {signum}

\* The outcomes a system call may have: TRUE is success.
CallOutcomes == IF osFaulty THEN {TRUE, FALSE} ELSE {TRUE}

\* A has_pending that forgets the sigandset with signalfd->sigs.
HasPendingUnmasked(pend, set) == ~Sigisemptyset(pend)

\* signalfd_has_pending, when sigpending and sigandset succeed: *has_pending.
HasPending(pend, set) == ~Sigisemptyset(Sigandset(pend, set))

\* signalfd_has_pending, when they succeed: *pending.
PendingSigs(pend, set) == Sigandset(pend, set)

(* --------------------- the event trigger (kqueue_event) --------------- *)

\* kqueue_event_trigger(&signalfd->kqueue_event, signalfd->kq): the ready bit
\* after the call, given the bit before and whether the call succeeded.
KqueueEventTrigger(bit, ok) == IF ok THEN TRUE ELSE bit

\* kqueue_event_clear(&signalfd->kqueue_event, signalfd->kq).
KqueueEventClear(bit, ok) == IF ok THEN FALSE ELSE bit

\* Observers that never fire.
EvfiltSignalNever(bit, s) == bit

\* An EVFILT_SIGNAL observer: the ready bit after signal s is delivered.
EvfiltSignal(bit, s) == IF registered /\ Sigismember(sigs, s) THEN TRUE ELSE bit

(* ------------------------------ history ------------------------------- *)

\* The monitored signals that are pending now.
MonPending == pending \cap sigs

\* A thread is inside the body of read or poll from the moment it gets the
\* mutex to the moment it gives it back.
InCall(t) == mutexOwner = t

\* A call returns in the instant it unlocks: nothing else happens while a
\* thread is at "done", the position where the state shows what it returned.
NoReturn == \A t \in Threads : pc[t] # "done"

\* The call histories once the pending set has become p.
SawPendingAfter(p) ==
    [t \in Threads |-> IF tracing /\ InCall(t) THEN sawPending[t] \/ (p \cap sigs # {}) ELSE sawPending[t]]

SawEmptyAfter(p) ==
    [t \in Threads |-> IF tracing /\ InCall(t) THEN sawEmpty[t] \/ (p \cap sigs = {}) ELSE sawEmpty[t]]

\* The claims since the last delivery, once a read has returned signal s
\* (the history holds signals of quietPending, and at most MaxClaimed entries).
Claimed(s) ==
    IF s \in quietPending /\ Len(claimedSeq) < MaxClaimed THEN Append(claimedSeq, s) ELSE claimedSeq

(* ------------------------------- Init --------------------------------- *)

\* The state when signalfd_ctx_init is entered: *signalfd = {.kq, .sigs}.
InitWith(faulty, closed, traced) ==
    /\ variant \in {"sigtimedwait", "thrsigdivert"}
    /\ osFaulty = faulty
    /\ closedWorld = closed
    /\ tracing = traced
    /\ sigs \in SUBSET Signals
    /\ pending = {}
    /\ ready = FALSE
    /\ registered = FALSE
    /\ knotes = {}
    /\ mutexLive = FALSE
    /\ mutexOwner = 0
    /\ phase = "init_mutex"
    /\ initEc = "none"
    /\ termEc = "none"
    /\ termSteps = <<>>
    /\ pc = [t \in Threads |-> "idle"]
    /\ op = [t \in Threads |-> "none"]
    /\ reventsPtr = [t \in Threads |-> FALSE]
    /\ ec = [t \in Threads |-> "none"]
    /\ ident = [t \in Threads |-> 0]
    /\ pendingSigs = [t \in Threads |-> {}]
    /\ csResult = [t \in Threads |-> "none"]
    /\ revents = [t \in Threads |-> "unset"]
    /\ sawPending = [t \in Threads |-> FALSE]
    /\ sawEmpty = [t \in Threads |-> FALSE]
    /\ retried = [t \in Threads |-> FALSE]
    /\ failed = [t \in Threads |-> {}]
    /\ preRegPending = FALSE
    /\ postRegDelivered = FALSE
    /\ callsStarted = 0
    /\ bitAtEntry = [t \in Threads |-> FALSE]
    /\ undisturbed = [t \in Threads |-> FALSE]
    /\ prevPoll = [t \in Threads |-> "none"]
    /\ quietPending = {}
    /\ claimedSeq = <<>>
    /\ lastPoll = "none"

Init == InitWith(FALSE, TRUE, TRUE)

InitEnv == InitWith(FALSE, FALSE, TRUE)

(* --------------------------- the environment -------------------------- *)

\* The kernel posts signal s to the process; the signal is blocked, so it
\* stays pending, and the observers of the monitor (if registered) fire.
Deliver(s) ==
    /\ NoReturn
    /\ pending' = pending \cup {s}
    /\ ready' = EvfiltSignal(ready, s)
    /\ sawPending' = SawPendingAfter(pending')
    /\ sawEmpty' = SawEmptyAfter(pending')
    /\ postRegDelivered' = (postRegDelivered \/ (closedWorld /\ registered /\ callsStarted < 2 /\ s \in sigs))
    /\ IF s \in sigs
       THEN /\ undisturbed' = [t \in Threads |-> FALSE]
            /\ quietPending' = IF closedWorld THEN pending' \cap sigs ELSE {}
            /\ claimedSeq' = <<>>
            /\ lastPoll' = "none"
       ELSE UNCHANGED <<undisturbed, quietHist>>
    /\ UNCHANGED <<monitorVars, lifeVars, mutexOwner, pc, localVars, retried, failed,
                   preRegPending, callsStarted, bitAtEntry, prevPoll>>

\* Another consumer of the process (a sigwait in another thread, a second
\* monitor) takes pending signal s.
ExternalConsume(s) ==
    /\ ~closedWorld
    /\ NoReturn
    /\ s \in pending
    /\ pending' = pending \ {s}
    /\ sawPending' = SawPendingAfter(pending')
    /\ sawEmpty' = SawEmptyAfter(pending')
    /\ UNCHANGED <<monitorVars, lifeVars, ready, mutexOwner, pc, localVars, retried, failed,
                   initHist, callsStarted, entryHist, quietHist>>

(* ------------------------- signalfd_ctx_init -------------------------- *)

\* pthread_mutex_init; on failure init returns its error.
InitMutex ==
    /\ phase = "init_mutex"
    /\ \E ok \in CallOutcomes :
         IF ok
         THEN /\ mutexLive' = TRUE
              /\ phase' = "init_event"
              /\ initEc' = initEc
         ELSE /\ mutexLive' = mutexLive
              /\ phase' = "failed"
              /\ initEc' = EFAIL
    /\ UNCHANGED <<monitorVars, pending, ready, registered, knotes, mutexOwner, termEc, termSteps, pc,
                   localVars, sawPending, sawEmpty, retried, failed, initHist, callsStarted, entryHist, quietHist>>

\* kqueue_event_init; on failure: out2 (the mutex is destroyed).
InitEvent ==
    /\ phase = "init_event"
    /\ \E ok \in CallOutcomes :
         IF ok
         THEN /\ phase' = "init_register"
              /\ UNCHANGED <<mutexLive, initEc>>
         ELSE /\ mutexLive' = FALSE
              /\ phase' = "failed"
              /\ initEc' = EFAIL
    /\ UNCHANGED <<monitorVars, pending, ready, registered, knotes, mutexOwner, termEc, termSteps, pc,
                   localVars, sawPending, sawEmpty, retried, failed, initHist, callsStarted, entryHist, quietHist>>

\* The batch kevent call that registers one observer per signal of sigs
\* and the trigger event; on failure: out (kqueue_event_terminate), out2.
InitRegister ==
    /\ phase = "init_register"
    /\ \E ok \in CallOutcomes :
         IF ok
         THEN /\ registered' = TRUE
              /\ knotes' = {i \in Signals : Sigismember(sigs, i)}
              /\ phase' = "init_pending"
              /\ preRegPending' = (closedWorld /\ MonPending # {})
              /\ UNCHANGED <<mutexLive, initEc>>
         ELSE /\ registered' = FALSE
              /\ mutexLive' = FALSE
              /\ phase' = "failed"
              /\ initEc' = EFAIL
              /\ UNCHANGED <<knotes, preRegPending>>
    /\ UNCHANGED <<monitorVars, pending, ready, mutexOwner, termEc, termSteps, pc,
                   localVars, sawPending, sawEmpty, retried, failed, postRegDelivered, callsStarted, entryHist, quietHist>>

\* An init that never primes the registration.
InitNeverTriggers(hasPending) == FALSE

\* An init that primes the registration whatever is pending.
InitAlwaysTriggers(hasPending) == TRUE

\* signalfd_has_pending in init: decides whether init primes the registration.
InitNeedsTrigger(hasPending) == hasPending

\* The pending-set query of init; on failure: out, out2.  At out,
\* kqueue_event_terminate(&signalfd->kqueue_event) releases the trigger event;
\* it is handed neither the kq nor the signal set and init issues no
\* EV_DELETE, so the EVFILT_SIGNAL entries stay on the kq.
InitHasPending ==
    /\ phase = "init_pending"
    /\ \E ok \in CallOutcomes :
         IF ok
         THEN /\ phase' = IF InitNeedsTrigger(HasPending(pending, sigs))
                          THEN "init_trigger" ELSE "live"
              /\ initEc' = IF InitNeedsTrigger(HasPending(pending, sigs))
                           THEN initEc ELSE NoError
              /\ UNCHANGED <<registered, mutexLive, ready>>
         ELSE /\ registered' = FALSE
              /\ mutexLive' = FALSE
              /\ ready' = FALSE
              /\ phase' = "failed"
              /\ initEc' = EFAIL
    /\ UNCHANGED <<monitorVars, pending, knotes, mutexOwner, termEc, termSteps, pc,
                   localVars, sawPending, sawEmpty, retried, failed, initHist, callsStarted, entryHist, quietHist>>

\* signalfd_ctx_trigger_manually in init; on failure: out, out2.
InitTrigger ==
    /\ phase = "init_trigger"
    /\ \E ok \in CallOutcomes :
         IF ok
         THEN /\ ready' = KqueueEventTrigger(ready, TRUE)
              /\ phase' = "live"
              /\ initEc' = NoError
              /\ UNCHANGED <<registered, mutexLive>>
         ELSE /\ registered' = FALSE
              /\ mutexLive' = FALSE
              /\ ready' = FALSE
              /\ phase' = "failed"
              /\ initEc' = EFAIL
    /\ UNCHANGED <<monitorVars, pending, knotes, mutexOwner, termEc, termSteps, pc,
                   localVars, sawPending, sawEmpty, retried, failed, initHist, callsStarted, entryHist, quietHist>>

(* ----------------------- signalfd_ctx_terminate ----------------------- *)

\* The caller's obligation: terminate is called once, on a live monitor,
\* with no read or poll in flight.
TerminateAllowed == phase = "live" /\ \A t \in Threads : pc[t] = "idle"

\* A terminate that returns the error of its last failing step.
LastError(e, eLocal) == IF eLocal # NoError THEN eLocal ELSE e

\* ec = ec != 0 ? ec : ec_local
FirstError(e, eLocal) == IF e # NoError THEN e ELSE eLocal

\* kqueue_event_terminate: the registration is removed whether or not the
\* call reports an error.
KqueueEventTerminateCall ==
    /\ \E ok \in CallOutcomes :
         LET ecLocal == IF ok THEN NoError ELSE EFAIL
         IN /\ termEc' = FirstError(NoError, ecLocal)
            /\ termSteps' = Append(termSteps, ecLocal)
    /\ registered' = FALSE
    /\ ready' = FALSE
    /\ phase' = "term_mutex"
    /\ UNCHANGED <<monitorVars, pending, knotes, mutexLive, mutexOwner, initEc, pc,
                   localVars, sawPending, sawEmpty, retried, failed, initHist, callsStarted, entryHist, quietHist>>

\* signalfd_ctx_terminate is entered, called as the caller is obliged to.
TerminateEvent == TerminateAllowed /\ KqueueEventTerminateCall

\* signalfd_ctx_terminate is entered while a read or poll is in flight: it
\* takes no lock, so nothing in it waits for that call.  What the calls in
\* flight do once the mutex is destroyed under them is undefined; the model
\* lets them run on, and no formula speaks of the states after that.
TerminateEventUnsynchronized ==
    /\ phase = "live"
    /\ ~TerminateAllowed
    /\ NoReturn
    /\ KqueueEventTerminateCall

\* pthread_mutex_destroy, then return ec.
TerminateMutex ==
    /\ phase = "term_mutex"
    /\ \E ok \in CallOutcomes :
         LET ecLocal == IF ok THEN NoError ELSE EINVAL
         IN /\ termEc' = FirstError(termEc, ecLocal)
            /\ termSteps' = Append(termSteps, ecLocal)
    /\ mutexLive' = FALSE
    /\ phase' = "terminated"
    /\ UNCHANGED <<monitorVars, pending, ready, registered, knotes, mutexOwner, initEc, pc,
                   localVars, sawPending, sawEmpty, retried, failed, initHist, callsStarted, entryHist, quietHist>>

(* --------------------- the callers of read and poll ------------------- *)

Bump(n) == IF n < 2 THEN n + 1 ELSE n

\* A thread calls signalfd_ctx_read or signalfd_ctx_poll and reaches the
\* pthread_mutex_lock that both start with.  Which of the two it called, and
\* with what argument, shows only once it has the mutex (LockRead, LockPoll).
Call(t) ==
    /\ phase = "live"
    /\ pc[t] = "idle"
    /\ NoReturn
    /\ pc' = [pc EXCEPT ![t] = "lock"]
    /\ callsStarted' = Bump(callsStarted)
    /\ preRegPending' = (preRegPending /\ callsStarted = 0)
    /\ postRegDelivered' = (postRegDelivered /\ callsStarted = 0)
    /\ UNCHANGED <<monitorVars, lifeVars, pending, ready, mutexOwner, localVars,
                   sawPending, sawEmpty, retried, failed, entryHist, quietHist>>

\* A poll that starts with the claim step of read.
PollClaimsFirst(wasTriggered) == IF variant = "thrsigdivert" THEN "ri_pending" ELSE "ri_wait"

\* Where signalfd_ctx_clear_signal(signalfd, was_triggered) starts.
ClearSignalEntry(wasTriggered) == IF wasTriggered THEN "cs_check" ELSE "cs_clear"

\* Where signalfd_ctx_read_impl starts in this build.
ReadImplEntry == IF variant = "thrsigdivert" THEN "ri_pending" ELSE "ri_wait"

\* A lock that lets every caller in.
MutexIgnored(owner) == TRUE

\* pthread_mutex_lock returns only when no thread holds the mutex.
MutexFree(owner) == owner = 0

\* pthread_mutex_lock(&signalfd->mutex) returns in thread t.
Acquire(t) ==
    /\ NoReturn
    /\ pc[t] = "lock"
    /\ MutexFree(mutexOwner)
    /\ mutexOwner' = t
    /\ sawPending' = [sawPending EXCEPT ![t] = (tracing /\ MonPending # {})]
    /\ sawEmpty' = [sawEmpty EXCEPT ![t] = (tracing /\ MonPending = {})]
    /\ bitAtEntry' = [bitAtEntry EXCEPT ![t] = (tracing /\ ready)]
    /\ undisturbed' = [undisturbed EXCEPT ![t] = closedWorld]

\* signalfd_ctx_read: the mutex is taken, signalfd_ctx_read_impl is next.
LockRead(t) ==
    /\ Acquire(t)
    /\ op' = [op EXCEPT ![t] = "read"]
    /\ pc' = [pc EXCEPT ![t] = ReadImplEntry]
    /\ lastPoll' = "none"
    /\ UNCHANGED <<monitorVars, lifeVars, pending, ready, reventsPtr, ec, ident, pendingSigs,
                   csResult, revents, retried, failed, initHist, callsStarted, prevPoll,
                   quietPending, claimedSeq>>

\* signalfd_ctx_poll: the mutex is taken, then
\* signalfd_ctx_clear_signal(signalfd, revents != NULL).
LockPoll(t) ==
    /\ Acquire(t)
    /\ op' = [op EXCEPT ![t] = "poll"]
    /\ \E r \in BOOLEAN :
         /\ reventsPtr' = [reventsPtr EXCEPT ![t] = r]
         /\ pc' = [pc EXCEPT ![t] = ClearSignalEntry(r)]
    /\ prevPoll' = [prevPoll EXCEPT ![t] = lastPoll]
    /\ UNCHANGED <<monitorVars, lifeVars, pending, ready, ec, ident, pendingSigs,
                   csResult, revents, retried, failed, initHist, callsStarted, quietHist>>

(* ----------------------- signalfd_ctx_read_impl ----------------------- *)

\* A read that reconciles only when nothing was claimed.
AfterReadImplNoneReadyOnly(e) == IF e = EAGAIN THEN "cs_clear" ELSE "unlock"

\* A claim step that waits until a signal is there instead of returning EAGAIN.
AfterReadImplBlocking(e) ==
    IF e = EAGAIN THEN (IF variant = "thrsigdivert" THEN "ri_pending" ELSE "ri_wait")
    ELSE IF e = NoError THEN "cs_clear" ELSE "unlock"

\* signalfd_ctx_read: clear_signal(signalfd, false) runs after read_impl
\* returned 0, EAGAIN or EWOULDBLOCK (EWOULDBLOCK is EAGAIN on these systems).
AfterReadImpl(e) == IF e \in {NoError, EAGAIN} THEN ClearSignalEntry(FALSE) ELSE "unlock"

\* A consuming wait that takes s and every pending signal above it.
ConsumeFrom(pend, s) == {x \in pend : x < s}

\* A wait that reports s and leaves it pending.
ConsumeNothing(pend, s) == pend

\* The pending set after a consuming wait has taken signal s.
Consume(pend, s) == pend \ {s}

\* A sigtimedwait that is handed the full signal mask instead of signalfd->sigs.
WaitableAny(pend, set) == pend

\* The signals sigtimedwait(&signalfd->sigs, NULL, {0, 0}) may return.
Waitable(pend, set) == Sigandset(pend, set)

\* s = sigtimedwait(&signalfd->sigs, NULL, &(struct timespec){0, 0}):
\* takes one pending signal of the set, or fails with EAGAIN when there is
\* none (or with another error).
ReadImplSigtimedwait(t) ==
    /\ pc[t] = "ri_wait"
    /\ \E ok \in CallOutcomes :
         IF ~ok
         THEN /\ ec' = [ec EXCEPT ![t] = EFAIL]
              /\ UNCHANGED <<pending, ident>>
         ELSE IF Waitable(pending, sigs) = {}
         THEN /\ ec' = [ec EXCEPT ![t] = EAGAIN]
              /\ UNCHANGED <<pending, ident>>
         ELSE \E s \in Waitable(pending, sigs) :
                /\ pending' = Consume(pending, s)
                /\ ident' = [ident EXCEPT ![t] = s]
                /\ ec' = [ec EXCEPT ![t] = NoError]
    /\ claimedSeq' = IF ec'[t] = NoError THEN Claimed(ident'[t]) ELSE claimedSeq
    /\ pc' = [pc EXCEPT ![t] = AfterReadImpl(ec'[t])]
    /\ sawPending' = SawPendingAfter(pending')
    /\ sawEmpty' = SawEmptyAfter(pending')
    /\ UNCHANGED <<monitorVars, lifeVars, ready, mutexOwner, op, reventsPtr,
                   pendingSigs, csResult, revents, retried, failed, initHist, callsStarted, entryHist, quietPending, lastPoll>>

\* OpenBSD, the head of the loop: signalfd_has_pending(signalfd, &has_pending,
\* &pending_sigs); an error is returned, no pending signal is EAGAIN.
ReadImplHasPending(t) ==
    /\ pc[t] = "ri_pending"
    /\ \E ok \in CallOutcomes :
         IF ~ok
         THEN /\ ec' = [ec EXCEPT ![t] = EFAIL]
              /\ pc' = [pc EXCEPT ![t] = AfterReadImpl(EFAIL)]
              /\ UNCHANGED pendingSigs
         ELSE IF ~HasPending(pending, sigs)
         THEN /\ ec' = [ec EXCEPT ![t] = EAGAIN]
              /\ pc' = [pc EXCEPT ![t] = AfterReadImpl(EAGAIN)]
              /\ UNCHANGED pendingSigs
         ELSE /\ pendingSigs' = [pendingSigs EXCEPT ![t] = PendingSigs(pending, sigs)]
              /\ pc' = [pc EXCEPT ![t] = "ri_divert"]
              /\ UNCHANGED ec
    /\ UNCHANGED <<monitorVars, lifeVars, pending, ready, mutexOwner, op, reventsPtr,
                   ident, csResult, revents, sawPending, sawEmpty, retried, failed,
                   initHist, callsStarted, entryHist, quietHist>>

\* A loop that picks the highest-numbered pending signal.
SignumHighest(pendSigs) ==
    IF pendSigs = {} THEN 0 ELSE CHOOSE i \in pendSigs : \A j \in pendSigs : j <= i

\* int signum = __builtin_ffsll((long long)pending_sigs)
Signum(pendSigs) == Ffsll(pendSigs)

\* A loop that takes no failure of the single-signal wait for benign.
NeverBenign(e) == FALSE

\* s < 0 && (errno == EINVAL || errno == EAGAIN): go round the loop again.
Benign(e) == e \in {EINVAL, EAGAIN}

\* OpenBSD: s = __thrsigdivert(sigmask(signum), NULL, {0, -1}): takes the
\* signal if it is (still) pending, else fails with EINVAL (the invalid
\* timeout), or fails with another error.
ReadImplDivert(t) ==
    /\ pc[t] = "ri_divert"
    /\ LET mask == Sigmask(Signum(pendingSigs[t]))
       IN \E ok \in CallOutcomes :
            IF ~ok
            THEN /\ ec' = [ec EXCEPT ![t] = EFAIL]
                 /\ pc' = [pc EXCEPT ![t] = AfterReadImpl(EFAIL)]
                 /\ UNCHANGED <<pending, ident, retried>>
            ELSE IF Sigandset(pending, mask) = {}
            THEN IF Benign(EINVAL)
                 THEN /\ pc' = [pc EXCEPT ![t] = "ri_pending"]
                      /\ retried' = [retried EXCEPT ![t] = TRUE]
                      /\ UNCHANGED <<pending, ident, ec>>
                 ELSE /\ ec' = [ec EXCEPT ![t] = EINVAL]
                      /\ pc' = [pc EXCEPT ![t] = AfterReadImpl(EINVAL)]
                      /\ UNCHANGED <<pending, ident, retried>>
            ELSE \E s \in Sigandset(pending, mask) :
                   /\ pending' = Consume(pending, s)
                   /\ ident' = [ident EXCEPT ![t] = s]
                   /\ ec' = [ec EXCEPT ![t] = NoError]
                   /\ pc' = [pc EXCEPT ![t] = AfterReadImpl(NoError)]
                   /\ UNCHANGED retried
    /\ claimedSeq' = IF pending' # pending THEN Claimed(ident'[t]) ELSE claimedSeq
    /\ pendingSigs' = [pendingSigs EXCEPT ![t] = {}]
    /\ sawPending' = SawPendingAfter(pending')
    /\ sawEmpty' = SawEmptyAfter(pending')
    /\ UNCHANGED <<monitorVars, lifeVars, ready, mutexOwner, op, reventsPtr,
                   csResult, revents, failed, initHist, callsStarted, entryHist, quietPending, lastPoll>>

(* --------------------- signalfd_ctx_clear_signal ---------------------- *)

\* A clear_signal that looks at the failure of the query only.
QueryIgnoresPending(ok, pend, set) == ~ok

\* A clear_signal that takes a failing query to mean nothing is pending.
QueryFailureIsEmpty(ok, pend, set) == ok /\ HasPending(pend, set)

\* signalfd_has_pending(...) != 0 || has_pending, as clear_signal writes it
\* twice: a failing query counts as something pending.
QuerySaysPending(ok, pend, set) == ~ok \/ HasPending(pend, set)

\* if (was_triggered): other signals pending keep the kq readable, so
\* clear_signal returns true without clearing.
CsCheck(t) ==
    /\ pc[t] = "cs_check"
    /\ \E ok \in CallOutcomes :
         /\ IF QuerySaysPending(ok, pending, sigs)
            THEN /\ csResult' = [csResult EXCEPT ![t] = "true"]
                 /\ pc' = [pc EXCEPT ![t] = "unlock"]
            ELSE /\ pc' = [pc EXCEPT ![t] = "cs_clear"]
                 /\ UNCHANGED csResult
         /\ failed' = [failed EXCEPT ![t] = IF ok THEN @ ELSE @ \cup {"check"}]
    /\ UNCHANGED <<monitorVars, lifeVars, pending, ready, mutexOwner, op, reventsPtr, ec,
                   ident, pendingSigs, revents, sawPending, sawEmpty, retried,
                   initHist, callsStarted, entryHist, quietHist>>

\* kqueue_event_clear(&signalfd->kqueue_event, signalfd->kq); its result is dropped.
CsClear(t) ==
    /\ pc[t] = "cs_clear"
    /\ \E ok \in CallOutcomes : ready' = KqueueEventClear(ready, ok)
    /\ pc' = [pc EXCEPT ![t] = "cs_recheck"]
    /\ UNCHANGED <<monitorVars, lifeVars, pending, mutexOwner, localVars,
                   sawPending, sawEmpty, retried, failed, initHist, callsStarted, entryHist, quietHist>>

\* The recheck after the clear: trigger manually and return true if
\* something is pending, else return false.
CsRecheck(t) ==
    /\ pc[t] = "cs_recheck"
    /\ \E ok \in CallOutcomes :
         /\ IF QuerySaysPending(ok, pending, sigs)
            THEN /\ pc' = [pc EXCEPT ![t] = "cs_trigger"]
                 /\ UNCHANGED csResult
            ELSE /\ csResult' = [csResult EXCEPT ![t] = "false"]
                 /\ pc' = [pc EXCEPT ![t] = "unlock"]
         /\ failed' = [failed EXCEPT ![t] = IF ok THEN @ ELSE @ \cup {"recheck"}]
    /\ UNCHANGED <<monitorVars, lifeVars, pending, ready, mutexOwner, op, reventsPtr, ec,
                   ident, pendingSigs, revents, sawPending, sawEmpty, retried,
                   initHist, callsStarted, entryHist, quietHist>>

\* (void)signalfd_ctx_trigger_manually(signalfd); return true.
CsTrigger(t) ==
    /\ pc[t] = "cs_trigger"
    /\ \E ok \in CallOutcomes :
         /\ ready' = KqueueEventTrigger(ready, ok)
         /\ failed' = [failed EXCEPT ![t] = IF ok THEN @ ELSE @ \cup {"trigger"}]
    /\ csResult' = [csResult EXCEPT ![t] = "true"]
    /\ pc' = [pc EXCEPT ![t] = "unlock"]
    /\ UNCHANGED <<monitorVars, lifeVars, pending, mutexOwner, op, reventsPtr, ec,
                   ident, pendingSigs, revents, sawPending, sawEmpty, retried,
                   initHist, callsStarted, entryHist, quietHist>>

(* ------------------------- unlock and return -------------------------- *)

\* A poll that reports the opposite of what clear_signal returned.
ReventsSwapped(result) == IF result = "true" THEN NoEvents ELSE POLLIN

\* *revents = pending ? POLLIN : 0
Revents(result) == IF result = "true" THEN POLLIN ELSE NoEvents

\* A read that reports success whenever clear_signal returned true.
ReadResultFromClear(e, cleared) == IF cleared = "true" THEN NoError ELSE e

\* signalfd_ctx_read: (void)signalfd_ctx_clear_signal(...); return (ec): the
\* ec of read_impl, whatever clear_signal returned.
ReadResult(e, cleared) == e

\* poll: if (revents) *revents = ...; then pthread_mutex_unlock and return.
\* read: pthread_mutex_unlock; return (ec).
Unlock(t) ==
    /\ pc[t] = "unlock"
    /\ mutexOwner = t
    /\ ec' = [ec EXCEPT ![t] = IF op[t] = "read" THEN ReadResult(@, csResult[t]) ELSE @]
    /\ revents' = [revents EXCEPT ![t] = IF op[t] = "poll" /\ reventsPtr[t]
                                          THEN Revents(csResult[t]) ELSE @]
    /\ mutexOwner' = 0
    /\ lastPoll' = IF op[t] = "poll" /\ undisturbed[t] THEN csResult[t] ELSE lastPoll
    /\ pc' = [pc EXCEPT ![t] = "done"]
    /\ UNCHANGED <<monitorVars, lifeVars, pending, ready, op, reventsPtr, ident,
                   pendingSigs, csResult, sawPending, sawEmpty, retried, failed,
                   initHist, callsStarted, entryHist, quietPending, claimedSeq>>

\* The caller has looked at what the call returned; its locals are gone.
Return(t) ==
    /\ pc[t] = "done"
    /\ pc' = [pc EXCEPT ![t] = "idle"]
    /\ op' = [op EXCEPT ![t] = "none"]
    /\ reventsPtr' = [reventsPtr EXCEPT ![t] = FALSE]
    /\ ec' = [ec EXCEPT ![t] = "none"]
    /\ ident' = [ident EXCEPT ![t] = 0]
    /\ pendingSigs' = [pendingSigs EXCEPT ![t] = {}]
    /\ csResult' = [csResult EXCEPT ![t] = "none"]
    /\ revents' = [revents EXCEPT ![t] = "unset"]
    /\ sawPending' = [sawPending EXCEPT ![t] = FALSE]
    /\ sawEmpty' = [sawEmpty EXCEPT ![t] = FALSE]
    /\ retried' = [retried EXCEPT ![t] = FALSE]
    /\ failed' = [failed EXCEPT ![t] = {}]
    /\ bitAtEntry' = [bitAtEntry EXCEPT ![t] = FALSE]
    /\ undisturbed' = [undisturbed EXCEPT ![t] = FALSE]
    /\ prevPoll' = [prevPoll EXCEPT ![t] = "none"]
    /\ UNCHANGED <<monitorVars, lifeVars, pending, ready, mutexOwner, initHist, callsStarted, quietHist>>

(* --------------------------- specifications --------------------------- *)

Lifecycle ==
    \/ InitMutex
    \/ InitEvent
    \/ InitRegister
    \/ InitHasPending
    \/ InitTrigger
    \/ TerminateEvent
    \/ TerminateMutex

ThreadStep(t) ==
    \/ Call(t)
    \/ LockRead(t)
    \/ LockPoll(t)
    \/ ReadImplSigtimedwait(t)
    \/ ReadImplHasPending(t)
    \/ ReadImplDivert(t)
    \/ CsCheck(t)
    \/ CsClear(t)
    \/ CsRecheck(t)
    \/ CsTrigger(t)
    \/ Unlock(t)
    \/ Return(t)

\* The monitor is the only consumer of the signals; system calls succeed.
Next ==
    \/ Lifecycle
    \/ \E t \in Threads : ThreadStep(t)
    \/ \E s \in Signals : Deliver(s)

Spec == Init /\ [][Next]_vars

\* As Spec, with other consumers of pending signals in the process.
NextEnv ==
    \/ Next
    \/ \E s \in Signals : ExternalConsume(s)

SpecEnv == InitEnv /\ [][NextEnv]_vars

\* Another consumer that takes a signal from under a claim loop at most once
\* per call, so that the loop goes round again but the environment does not
\* race it for ever.
ExternalConsumeOnce(s) ==
    /\ \A t \in Threads : ~retried[t]
    /\ ExternalConsume(s)

\* The steps of thread t that need the mutex to be free.
LockStep(t) == LockRead(t) \/ LockPoll(t)

\* The steps of thread t between getting the mutex and being back in the caller.
BodyStep(t) ==
    \/ ReadImplSigtimedwait(t)
    \/ ReadImplHasPending(t)
    \/ ReadImplDivert(t)
    \/ CsCheck(t)
    \/ CsClear(t)
    \/ CsRecheck(t)
    \/ CsTrigger(t)
    \/ Unlock(t)
    \/ Return(t)

\* Fair scheduling: a thread that can take a step of its call takes it, and
\* a thread waiting for the mutex gets it if the mutex is free again and again.
Fairness == \A t \in Threads : WF_vars(BodyStep(t)) /\ SF_vars(LockStep(t))

NextLive ==
    \/ Next
    \/ \E s \in Signals : ExternalConsumeOnce(s)

\* A monitor of every signal, in an environment with another consumer; the
\* histories of what a call saw are not kept.
InitLive == InitWith(FALSE, FALSE, FALSE) /\ sigs = Signals

\* Deliveries, other callers and another consumer, under fair scheduling.
SpecLive == InitLive /\ [][NextLive]_vars /\ Fairness

\* As Spec, with callers that do not keep terminate apart from read and poll.
NextRace ==
    \/ Next
    \/ TerminateEventUnsynchronized

SpecRace == Init /\ [][NextRace]_vars

\* As Spec, in an environment where the system calls of the monitor may fail.
InitFault == InitWith(TRUE, TRUE, TRUE)

SpecFault == InitFault /\ [][Next]_vars

(* ------------------------------- claims ------------------------------- *)

\* The positions inside signalfd_ctx_read_impl.
ImplPcs == {"ri_wait", "ri_pending", "ri_divert"}

\* Thread t leaves signalfd_ctx_read_impl in this step.
ImplReturns(t) == pc[t] \in ImplPcs /\ pc'[t] \notin ImplPcs

\* Thread t is at the return of a read / of a poll that asked for revents.
ReadDone(t) == pc[t] = "done" /\ op[t] = "read"

PollDone(t) == pc[t] = "done" /\ op[t] = "poll" /\ reventsPtr[t]

\* C1: whatever deliveries interleave with the clear-and-recheck sequence of
\* read and poll, when signalfd_ctx_clear_signal has returned (the caller is
\* about to unlock, or has just returned) the ready bit is set if and only
\* if a monitored signal is pending.
C1_ReconciledAtCompletion ==
    \A t \in Threads :
        (pc[t] \in {"unlock", "done"} /\ csResult[t] # "none") => (ready <=> MonPending # {})

\* C1 witness: a poll that began with nothing pending, had a monitored signal
\* delivered during its sequence, and completes ready.
C1_Witness ==
    \E t \in Threads :
        /\ pc[t] = "unlock" /\ op[t] = "poll" /\ csResult[t] = "true"
        /\ sawEmpty[t] /\ ~undisturbed[t] /\ ready

\* C2: after a successful init, whenever the mutex is free, a pending
\* monitored signal implies that the ready bit is set.
C2_NoLostNotification ==
    (phase = "live" /\ mutexOwner = 0) => (MonPending # {} => ready)

\* C2 witness: a read has returned while a monitored signal was delivered
\* during its body; the signal is pending and the bit is set.
C2_Witness ==
    \E t \in Threads :
        ReadDone(t) /\ ~undisturbed[t] /\ phase = "live" /\ mutexOwner = 0
        /\ MonPending # {} /\ ready

\* C3: a poll that reports POLLIN had a monitored signal pending at some
\* moment of its body, and a poll that reports 0 had none pending at some
\* moment of its body: it never reports ready with nothing pending throughout,
\* nor not-ready with a signal pending throughout, whatever the ready bit
\* was when it started.
C3_PollReportsPending ==
    \A t \in Threads :
        PollDone(t) =>
            /\ revents[t] \in {POLLIN, NoEvents}
            /\ revents[t] = POLLIN => sawPending[t]
            /\ revents[t] = NoEvents => sawEmpty[t]

\* C3 witness: a poll that started with the ready bit set and stale (nothing
\* monitored was pending at any moment of it) reports 0.
C3_Witness ==
    \E t \in Threads :
        PollDone(t) /\ bitAtEntry[t] /\ ~sawPending[t] /\ revents[t] = NoEvents

\* C4: a read that succeeds returns a signal of signalfd->sigs, and no step
\* of a read or poll removes a signal outside signalfd->sigs from the
\* pending set (in both builds, deliveries of any signal interleaving).
C4_ReadStaysInSet ==
    /\ [](\A t \in Threads : (op[t] = "read" /\ ec[t] = NoError) => ident[t] \in sigs)
    /\ [][\A t \in Threads : pc'[t] # pc[t] => (pending \ pending') \subseteq sigs]_vars

\* C4 witness: in the retry-loop build a read went round its loop and then
\* returned a monitored signal while a signal outside the set is pending.
C4_Witness ==
    \E t \in Threads :
        ReadDone(t) /\ ec[t] = NoError /\ retried[t] /\ ident[t] \in sigs
        /\ pending \ sigs # {}

\* C5: the step in which read_impl returns success removes exactly the
\* returned signal, which was pending, from the pending set; read_impl
\* returning anything else, and every other step of a read or poll, leaves
\* the pending set as it is.
C5_ReadClaimsExactlyOne ==
    [][\A t \in Threads :
         /\ (ImplReturns(t) /\ ec'[t] = NoError) =>
                (ident'[t] \in pending /\ pending' = pending \ {ident'[t]})
         /\ (pc'[t] # pc[t] /\ ~(ImplReturns(t) /\ ec'[t] = NoError)) =>
                pending' = pending]_vars

\* C5 witness: a read has returned a signal and another signal is still pending.
C5_Witness ==
    \E t \in Threads : ReadDone(t) /\ ec[t] = NoError /\ pending # {}

\* C6: read_impl returns EAGAIN only in a step in which no monitored signal
\* is pending; and a read during whose body a monitored signal was pending
\* at every moment returns a signal (a failed single-signal wait makes the
\* loop go round again).
C6_NoneReadyOnlyWhenEmpty ==
    /\ [](\A t \in Threads : ReadDone(t) =>
              /\ ec[t] \in {NoError, EAGAIN}
              /\ ~sawEmpty[t] => ec[t] = NoError)
    /\ [][\A t \in Threads : (ImplReturns(t) /\ ec'[t] = EAGAIN) => MonPending = {}]_vars

\* C6 witness: in the retry-loop build a read found a monitored signal
\* pending, lost it to another consumer, went round the loop and returned
\* EAGAIN.
C6_Witness ==
    \E t \in Threads : ReadDone(t) /\ ec[t] = EAGAIN /\ retried[t] /\ sawPending[t]

\* C7: after init, before any call: the ready bit is set if a monitored
\* signal was pending when the observers were registered, and unset if none
\* was and none has been delivered since; and a poll that is the first call
\* after init reports POLLIN in the first case and 0 in the second.
C7_InitPrimes ==
    /\ (phase = "live" /\ callsStarted = 0) =>
          /\ preRegPending => ready
          /\ (~preRegPending /\ ~postRegDelivered) => ~ready
    /\ \A t \in Threads :
          (PollDone(t) /\ callsStarted = 1) =>
              /\ preRegPending => revents[t] = POLLIN
              /\ (~preRegPending /\ ~postRegDelivered) => revents[t] = NoEvents

\* C7 witness: the first call after init is a poll that reports POLLIN for a
\* signal delivered before the registration, none being delivered after it.
C7_Witness ==
    \E t \in Threads :
        PollDone(t) /\ callsStarted = 1 /\ preRegPending /\ ~postRegDelivered
        /\ revents[t] = POLLIN /\ ready

\* The signals that reads have returned since the last delivery of a monitored signal.
ClaimedSet == {claimedSeq[i] : i \in 1..Len(claimedSeq)}

\* Reads have claimed every monitored signal that was pending after the last
\* delivery of one, and none has been delivered since.
Drained == quietPending # {} /\ ClaimedSet = quietPending

\* C8: once reads have claimed every pending monitored signal and no
\* monitored signal has been delivered since: nothing monitored is pending,
\* the ready bit is unset whenever the mutex is free, a poll returns 0, and a
\* read that comes after the draining one returns EAGAIN.
C8_DrainToEmpty ==
    Drained =>
        /\ MonPending = {}
        /\ (phase = "live" /\ mutexOwner = 0) => ~ready
        /\ \A t \in Threads :
              /\ PollDone(t) => revents[t] = NoEvents
              /\ (ReadDone(t) /\ ~sawPending[t]) => ec[t] = EAGAIN

\* C8 witness: two reads have drained two pending signals, and the read
\* after them returns EAGAIN with the ready bit unset.
C8_Witness ==
    \E t \in Threads :
        ReadDone(t) /\ Drained /\ Len(claimedSeq) = 2 /\ ~sawPending[t]
        /\ ec[t] = EAGAIN /\ ~ready

\* Exactly two monitored signals were pending after the last delivery of one.
TwoPending == Cardinality(quietPending) = 2

\* C9: with two monitored signals pending and no further delivery: at most
\* two reads succeed and they return the two signals, each once; the first
\* leaves the other pending and the ready bit set, the second leaves nothing
\* pending and the bit unset; a read returns EAGAIN only after both; a poll
\* reports POLLIN as long as fewer than two have been claimed and 0 after.
C9_TwoPendingSequence ==
    TwoPending =>
        /\ Len(claimedSeq) <= 2
        /\ Cardinality(ClaimedSet) = Len(claimedSeq)
        /\ ClaimedSet \subseteq quietPending
        /\ \A t \in Threads :
              /\ (ReadDone(t) /\ undisturbed[t] /\ ec[t] = NoError) =>
                    /\ Len(claimedSeq) >= 1
                    /\ ident[t] = claimedSeq[Len(claimedSeq)]
                    /\ MonPending = quietPending \ ClaimedSet
                    /\ ready <=> Len(claimedSeq) = 1
              /\ (ReadDone(t) /\ undisturbed[t] /\ ec[t] # NoError) =>
                    (ec[t] = EAGAIN /\ Len(claimedSeq) = 2)
              /\ (PollDone(t) /\ undisturbed[t]) =>
                    /\ revents[t] = POLLIN <=> Len(claimedSeq) < 2
                    /\ revents[t] = NoEvents <=> Len(claimedSeq) = 2
                    /\ ready <=> Len(claimedSeq) < 2

\* C9 witness: both signals were pending, two reads have returned them, the
\* second one other than the first, and the poll after them reports 0.
C9_Witness ==
    \E t \in Threads :
        PollDone(t) /\ undisturbed[t] /\ TwoPending /\ Len(claimedSeq) = 2
        /\ claimedSeq[1] # claimedSeq[2] /\ revents[t] = NoEvents /\ ~ready

\* C10, as stated: once a poll has completed, and as long as no monitored
\* signal is delivered and no read runs, no step changes the ready bit.
C10_BitNeverChanges ==
    [][(lastPoll # "none" /\ lastPoll' # "none" /\ phase' = "live") => ready' = ready]_vars

\* C10, amended: a poll that follows a completed poll, with no monitored
\* delivery and no read between or during them, finds what that poll found,
\* reports the same revents, and leaves the ready bit, when it returns, as
\* it was when it started.
C10_IdempotentPeek ==
    \A t \in Threads :
        (pc[t] = "done" /\ op[t] = "poll" /\ prevPoll[t] # "none" /\ undisturbed[t]) =>
            /\ csResult[t] = prevPoll[t]
            /\ reventsPtr[t] => revents[t] = (IF prevPoll[t] = "true" THEN POLLIN ELSE NoEvents)
            /\ ready = bitAtEntry[t]
            /\ ready <=> MonPending # {}

\* C10 witness: a poll with revents NULL, run right after a poll that found
\* a signal pending, has cleared and re-triggered the bit and returns.
C10_Witness ==
    \E t \in Threads :
        /\ pc[t] = "done" /\ op[t] = "poll" /\ ~reventsPtr[t] /\ undisturbed[t]
        /\ prevPoll[t] = "true" /\ csResult[t] = "true" /\ ready

\* Thread t, inside poll, takes a step.
PollSteps(t) == op'[t] = "poll" /\ pc'[t] # pc[t]

\* C11: no step of a poll removes a signal from the pending set or changes
\* the monitor's signal set, its entries on the kq or its mutex object; and
\* from the moment a poll has the mutex to the moment it returns, the pending
\* set only stays equal or grows (by deliveries).
C11_PollFrame ==
    /\ [][\A t \in Threads :
            PollSteps(t) =>
                /\ pending' = pending
                /\ sigs' = sigs
                /\ <<registered', knotes', mutexLive'>> = <<registered, knotes, mutexLive>>]_vars
    /\ [][(\E t \in Threads : mutexOwner = t /\ op[t] = "poll") => pending \subseteq pending']_vars

\* C11 witness: a poll that cleared the bit has returned, a monitored signal
\* was delivered while it ran, and every pending signal is still pending.
C11_Witness ==
    \E t \in Threads :
        /\ pc[t] = "done" /\ op[t] = "poll" /\ sawEmpty[t] /\ sawPending[t]
        /\ MonPending # {} /\ pending \ sigs # {}

\* signalfd_ctx_init has returned.
InitReturned == phase \notin {"init_mutex", "init_event", "init_register", "init_pending", "init_trigger"}

\* C12: with an empty signal set, init succeeds without priming, every poll
\* writes 0 and every read returns EAGAIN whatever is pending, and no step
\* removes a signal from the pending set.
C12_EmptySet ==
    /\ [](sigs = {} =>
            /\ phase # "init_trigger"
            /\ InitReturned => initEc = NoError
            /\ \A t \in Threads :
                  /\ PollDone(t) => revents[t] = NoEvents
                  /\ (pc[t] = "done" /\ op[t] = "poll") => csResult[t] = "false"
                  /\ ReadDone(t) => (ec[t] = EAGAIN /\ ident[t] = 0))
    /\ [][sigs = {} => pending \subseteq pending']_vars

\* C12 witness: the set is empty, every signal is pending, and a read has
\* returned EAGAIN.
C12_Witness ==
    \E t \in Threads :
        ReadDone(t) /\ sigs = {} /\ pending = Signals /\ ec[t] = EAGAIN /\ phase = "live"

\* C13, as stated: once init has failed it has returned an OS error, the
\* mutex is not live, the registration is not live, and no entry of the
\* monitor is left on the caller's kq.
C13_InitRollsBack ==
    phase = "failed" =>
        /\ initEc \notin {"none", NoError}
        /\ ~mutexLive
        /\ ~registered
        /\ knotes = {}

\* C14: terminate performs its two steps in order whatever the first one
\* returns: after kqueue_event_terminate the destruction of the mutex is
\* what comes next, and when terminate has returned both steps were made,
\* the mutex is destroyed, and the value returned is the error of
\* kqueue_event_terminate if it failed, else that of pthread_mutex_destroy,
\* else 0.
C14_TerminateBothSteps ==
    /\ phase \in {"live", "failed"} \cup {"init_mutex", "init_event", "init_register",
                                        "init_pending", "init_trigger"} => termSteps = <<>>
    /\ phase = "term_mutex" =>
          /\ Len(termSteps) = 1
          /\ mutexLive
          /\ termSteps[1] = NoError => ~registered
          /\ ENABLED TerminateMutex
    /\ phase = "terminated" =>
          /\ Len(termSteps) = 2
          /\ ~mutexLive
          /\ termSteps[1] = NoError => ~registered
          /\ termEc = (IF termSteps[1] # NoError THEN termSteps[1]
                       ELSE IF termSteps[2] # NoError THEN termSteps[2] ELSE NoError)

\* C14 witness: both steps of terminate failed, with different errors, and
\* terminate has returned the first.
C14_Witness ==
    /\ phase = "terminated" /\ Len(termSteps) = 2
    /\ termSteps[1] = EFAIL /\ termSteps[2] = EINVAL /\ termEc = EFAIL /\ ~mutexLive

\* The positions of a call after its claim step: inside clear_signal, or at the unlock.
AfterClaimPcs == {"cs_check", "cs_clear", "cs_recheck", "cs_trigger", "unlock"}

\* C15: whether or not kqueue_event_clear or kqueue_event_trigger fails, no
\* step of a read after its claim step changes the ec or the *ident that the
\* claim step produced, a read returns 0 with a signal, EAGAIN, or the claim
\* step's error, and a poll returns with a readiness flag.
C15_HousekeepingSwallowed ==
    /\ [][\A t \in Threads :
            (op[t] = "read" /\ pc[t] \in AfterClaimPcs) => (ec'[t] = ec[t] /\ ident'[t] = ident[t])]_vars
    /\ [](\A t \in Threads :
            /\ ReadDone(t) =>
                  /\ ec[t] \in {NoError, EAGAIN, EFAIL}
                  /\ ec[t] = NoError <=> ident[t] # 0
                  /\ ec[t] = EFAIL <=> csResult[t] = "none"
            /\ (pc[t] = "done" /\ op[t] = "poll") => csResult[t] \in {"true", "false"}
            /\ PollDone(t) => revents[t] = (IF csResult[t] = "true" THEN POLLIN ELSE NoEvents))

\* C15 witness: a read has claimed a signal and returns it, another
\* monitored signal is pending, and the bit is unset: the force-ready of
\* this read failed.
C15_Witness ==
    \E t \in Threads :
        /\ ReadDone(t) /\ ec[t] = NoError /\ ident[t] \in sigs /\ csResult[t] = "true"
        /\ MonPending # {} /\ ~ready

\* C16: under fair scheduling, with deliveries, other callers and another
\* consumer going on, every call of read or poll, wherever it is (waiting
\* for the mutex, in the claim loop of read_impl, in clear_signal), comes to
\* its return with the mutex given back.
C16_EveryCallReturns ==
    \A t \in Threads : (pc[t] # "idle") ~> (pc[t] = "done" /\ mutexOwner # t)

\* C16 witness: a read whose claim loop went round again has returned and
\* the mutex is free.
C16_Witness ==
    \E t \in Threads : ReadDone(t) /\ retried[t] /\ mutexOwner = 0

\* The positions of a call between pthread_mutex_lock and pthread_mutex_unlock.
BodyPcs == ImplPcs \cup AfterClaimPcs

\* The threads inside the body of read or poll.
InBody == {t \in Threads : pc[t] \in BodyPcs}

\* signalfd_ctx_terminate is between its first and its last step.
InTerminate == phase = "term_mutex"

\* Read and poll are serialized among themselves: as long as terminate has
\* not been entered, at most one thread is inside a body, it holds the mutex,
\* and while it does the other threads do nothing but reach the lock.
ReadPollSerialized ==
    /\ [](phase = "live" =>
            /\ Cardinality(InBody) <= 1
            /\ \A t \in InBody : mutexOwner = t)
    /\ [][\A t \in Threads :
            (phase' = "live" /\ mutexOwner = t /\ mutexOwner' = t) =>
                \A u \in Threads \ {t} :
                    /\ pc'[u] \in {pc[u], "lock"}
                    /\ <<op'[u], ec'[u], ident'[u], csResult'[u], revents'[u]>>
                         = <<op[u], ec[u], ident[u], csResult[u], revents[u]>>]_vars

\* C17, as stated: read, poll and terminate are all serialized by the mutex:
\* besides the above, terminate is never between its first and its last step
\* while a read or poll is inside its body.
C17_AllSerialized ==
    /\ ReadPollSerialized
    /\ [](InTerminate => InBody = {})

\* C17, amended: read and poll are serialized by the mutex; terminate is
\* not: it takes no lock, and entered during a call it runs at once.
C17_ReadPollSerialized ==
    /\ ReadPollSerialized
    /\ []((phase = "live" /\ InBody # {}) => ENABLED TerminateEventUnsynchronized)

\* C17 witness: one thread is in the body of its call and holds the mutex
\* while another waits at pthread_mutex_lock.
C17_Witness ==
    \E t, u \in Threads :
        t # u /\ phase = "live" /\ mutexOwner = t /\ pc[t] \in BodyPcs /\ pc[u] = "lock"

\* The lowest-numbered signal of a non-empty set.
Lowest(S) == CHOOSE x \in S : \A y \in S : x <= y

\* The monitored signals still pending when the i-th read since the last
\* delivery made its claim.
PendingAtClaim(i) == quietPending \ {claimedSeq[j] : j \in 1..(i - 1)}

\* C18: in the build with the retry loop, a step of the loop that claims a
\* signal claims the lowest-numbered one of the pending subset it has just
\* computed; a read during which nothing was delivered returns the lowest
\* monitored signal pending, every monitored signal it leaves pending has a
\* higher number, and the reads that follow one another without a delivery
\* return the pending signals in increasing order.
C18_LowestFirst ==
    /\ [][\A t \in Threads :
            (pc[t] = "ri_divert" /\ pc'[t] # pc[t] /\ ec'[t] = NoError) =>
                /\ ident'[t] = Lowest(pendingSigs[t])
                /\ pending \ pending' = {Lowest(pendingSigs[t])}]_vars
    /\ [](variant = "thrsigdivert" =>
            /\ \A i \in 2..Len(claimedSeq) :
                  /\ claimedSeq[i] = Lowest(PendingAtClaim(i))
                  /\ claimedSeq[i - 1] < claimedSeq[i] \/ i = 2
            /\ \A t \in Threads :
                  (ReadDone(t) /\ undisturbed[t] /\ ec[t] = NoError) =>
                      /\ Len(claimedSeq) >= 1
                      /\ ident[t] = claimedSeq[Len(claimedSeq)]
                      /\ ident[t] = Lowest(PendingAtClaim(Len(claimedSeq)))
                      /\ \A s \in MonPending : ident[t] < s
                      /\ \A i \in 1..(Len(claimedSeq) - 1) :
                            claimedSeq[i] = Lowest(PendingAtClaim(i)) => claimedSeq[i] < ident[t])

\* C18 witness: in the build with the retry loop, two signals were pending,
\* two reads have returned them, the lower one first.
C18_Witness ==
    \E t \in Threads :
        /\ variant = "thrsigdivert" /\ ReadDone(t) /\ undisturbed[t] /\ ec[t] = NoError
        /\ Len(claimedSeq) = 2 /\ claimedSeq[1] < claimedSeq[2] /\ ident[t] = claimedSeq[2]

\* What clear-then-recheck (kqueue_event_clear, the query, the manual
\* trigger if something is pending) returns and leaves in the ready bit when
\* it runs from a state with this bit and this pending set.
AlwaysClearOutcome(bit, pend, set) ==
    IF QuerySaysPending(TRUE, pend, set)
    THEN <<"true", KqueueEventTrigger(KqueueEventClear(bit, TRUE), TRUE)>>
    ELSE <<"false", KqueueEventClear(bit, TRUE)>>

\* Thread t takes the skip-clear path in this step.
SkipsClear(t) == pc[t] = "cs_check" /\ pc'[t] = "unlock"

\* C19: whenever a poll takes the skip-clear path, what it returns and the
\* ready bit it leaves are what clear-then-recheck gives from the same
\* state; and whatever deliveries interleave, a poll that asked for revents
\* (it may skip the clear) and one that did not (it always clears) end alike:
\* true with the bit set if a monitored signal was pending throughout, false
\* with the bit unset if none was pending at any moment, and in every case
\* with the bit set exactly if a monitored signal is pending.
C19_SkipClearEquivalent ==
    /\ [][\A t \in Threads :
            SkipsClear(t) => <<csResult'[t], ready'>> = AlwaysClearOutcome(ready, pending, sigs)]_vars
    /\ [](\A t \in Threads :
            (pc[t] \in {"unlock", "done"} /\ op[t] = "poll") =>
                /\ ~sawEmpty[t] => (csResult[t] = "true" /\ ready)
                /\ ~sawPending[t] => (csResult[t] = "false" /\ ~ready)
                /\ csResult[t] = "true" => sawPending[t]
                /\ csResult[t] = "false" => sawEmpty[t]
                /\ ready <=> MonPending # {})

\* C19 witness: a poll that asked for revents found a signal pending at
\* its first check and is about to return without having cleared the bit.
C19_Witness ==
    \E t \in Threads :
        /\ pc[t] = "unlock" /\ op[t] = "poll" /\ reventsPtr[t] /\ ~sawEmpty[t]
        /\ bitAtEntry[t] /\ csResult[t] = "true" /\ ready

\* The pending-set query of clear_signal failed in the call thread t is
\* in: at the skip-clear check, or at the recheck after the clear.
QueryFailedAtCheck(t) == "check" \in failed[t]
QueryFailedAtRecheck(t) == "recheck" \in failed[t]
QueryFailed(t) == QueryFailedAtCheck(t) \/ QueryFailedAtRecheck(t)

\* The literal reading of C20's conclusion: when clear_signal returns in a
\* poll whose query failed (and whose force-ready, if it ran, succeeded),
\* it returns ready and the ready bit is SET.
C20_NeverLeftUnset ==
    \A t \in Threads :
        (pc[t] = "unlock" /\ op[t] = "poll" /\ QueryFailed(t) /\ "trigger" \notin failed[t]) =>
            (csResult[t] = "true" /\ ready)

\* C20: a failing pending-set query in clear_signal counts as a pending
\* signal. Failing at the skip-clear check, the step returns ready and
\* leaves the ready bit as it was (neither cleared nor forced); failing at
\* the recheck it goes on to force the bit and returns ready. So a poll
\* whose query failed reports POLLIN even with nothing pending, and when
\* clear_signal returns after a failed recheck and a successful force-ready
\* the bit is SET.
C20_FailedQueryIsPending ==
    /\ [][\A t \in Threads :
            (pc[t] = "cs_check" /\ "check" \notin failed[t] /\ QueryFailedAtCheck(t)') =>
                (pc'[t] = "unlock" /\ csResult'[t] = "true" /\ ready' = ready)]_vars
    /\ [][\A t \in Threads :
            (pc[t] = "cs_recheck" /\ "recheck" \notin failed[t] /\ QueryFailedAtRecheck(t)') =>
                pc'[t] = "cs_trigger"]_vars
    /\ [](\A t \in Threads :
            (pc[t] \in {"unlock", "done"} /\ op[t] = "poll" /\ QueryFailed(t)) =>
                /\ csResult[t] = "true"
                /\ PollDone(t) => revents[t] = POLLIN
                /\ (pc[t] = "unlock" /\ QueryFailedAtRecheck(t) /\ "trigger" \notin failed[t]) => ready)

\* C20 witness: a poll returns POLLIN with the bit SET although no
\* monitored signal is pending, its recheck query having failed.
C20_Witness ==
    \E t \in Threads :
        /\ PollDone(t) /\ QueryFailedAtRecheck(t) /\ "trigger" \notin failed[t]
        /\ MonPending = {} /\ revents[t] = POLLIN /\ ready

====
